---- MODULE Spec2Model ----
(***************************************************************************)
(* Model of the server actions of alx-polly (app/lib/actions/              *)
(* poll-actions.ts) running against the polls and votes tables and the     *)
(* row-level-security policies of the database set-up in the README.       *)
(*                                                                         *)
(* Every server action is an async function; each await of a storage call  *)
(* is one atomic step, so that several requests interleave at the storage  *)
(* calls.  Text is modelled as sequences of one-character strings.         *)
(*                                                                         *)
(* Spec runs concurrent requests of an ordinary user, two administrators   *)
(* (one by email, one by role) and unauthenticated callers; SpecVotes runs *)
(* more calls of a single user, for the voting race; SpecForms runs one    *)
(* request at a time with the form data that exercises validation;         *)
(* SpecResults reads the results of polls between the requests; SpecReads  *)
(* runs hasUserVoted and getUserPolls between the requests; SpecPure       *)
(* applies validatePollInput, getPollResults, calculatePercentage and the  *)
(* three administrator tests to arguments and storage answers drawn from   *)
(* bounded sets.                                                           *)
(*                                                                         *)
(* SpecAdmin runs the browser side: AuthProvider (lib/context/             *)
(* auth-context.tsx), AdminPage (admin/page.tsx) and WithAdminAuth         *)
(* (admin/withAdminAuth.tsx).  A render is a function of the state; an     *)
(* effect, the continuation of an await and a navigation are steps of      *)
(* their own.  SpecAdminLive adds weak fairness for the steps the browser  *)
(* and the server always take: effects, continuations, navigations.        *)
(***************************************************************************)
EXTENDS Integers, Sequences, FiniteSets, Bags, TLC

(***************************************************************************)
(* Bounds of the model                                                     *)
(***************************************************************************)
MaxPolls == 2
MaxCalls == 3
MaxVoteCalls == 5
MaxFormCalls == 3
MaxPlain == 11
MaxBlank == 11
MaxVotes == 4
MaxTotal == 40
MaxResultCalls == 4
MaxReadCalls == 3
MaxAuthEvents == 2
MaxDeleteCalls == 2

(***************************************************************************)
(* Program constants                                                       *)
(***************************************************************************)
MaxQuestionLength == 500
MinOptions == 2
MaxOptions == 10
MaxOptionLength == 200

(***************************************************************************)
(* Text                                                                    *)
(***************************************************************************)
Rep(c, n) == [i \in 1..n |-> c]

MinOf(S) == CHOOSE m \in S : \A k \in S : m <= k

IsSpace(c) == c = " "

\* String.prototype.trim
trim(s) ==
  IF \A i \in 1..Len(s) : IsSpace(s[i]) THEN <<>>
  ELSE LET lo == CHOOSE i \in 1..Len(s) :
                      ~IsSpace(s[i]) /\ \A k \in 1..(i - 1) : IsSpace(s[k])
           hi == CHOOSE i \in 1..Len(s) :
                     ~IsSpace(s[i]) /\ \A k \in (i + 1)..Len(s) : IsSpace(s[k])
       IN  SubSeq(s, lo, hi)

\* String.prototype.includes
includes(s, sub) ==
  \E i \in 1..(Len(s) - Len(sub) + 1) : SubSeq(s, i, i + Len(sub) - 1) = sub

\* s.replace(/<[^>]*>/g, ''), scanning from position from: the leftmost "<"
\* that has a ">" after it starts a match that ends at the first such ">".
RECURSIVE replaceTags(_, _)
replaceTags(s, from) ==
  LET opens == {i \in from..Len(s) : s[i] = "<"}
  IN  IF opens = {} THEN SubSeq(s, from, Len(s))
      ELSE LET i == MinOf(opens)
               closers == {j \in (i + 1)..Len(s) : s[j] = ">"}
           IN  IF closers = {} THEN SubSeq(s, from, Len(s))
               ELSE SubSeq(s, from, i - 1) \o replaceTags(s, MinOf(closers) + 1)

sanitizeString(input) == replaceTags(trim(input), 1)

Null == "null"

ErrQuestionRequired == "Question is required."
ErrQuestionTooLong == "Question must be less than 500 characters."
ErrTooFewOptions == "Please provide at least two options."
ErrTooManyOptions == "Maximum 10 options allowed."
ErrOptionTooLong == "Each option must be less than 200 characters."

\* a validation that counts the options before the blank ones are dropped
validatePollInputUnfiltered(question, options) ==
  LET fail(e) == [valid |-> FALSE, error |-> e,
                  sanitizedQuestion |-> <<>>, sanitizedOptions |-> <<>>]
  IN  IF Len(question) = 0 \/ Len(trim(question)) = 0
        THEN fail(ErrQuestionRequired)
      ELSE IF Len(question) > MaxQuestionLength
        THEN fail(ErrQuestionTooLong)
      ELSE IF Len(options) < MinOptions
        THEN fail(ErrTooFewOptions)
      ELSE IF Len(options) > MaxOptions
        THEN fail(ErrTooManyOptions)
      ELSE IF \E i \in 1..Len(options) : Len(options[i]) > MaxOptionLength
        THEN fail(ErrOptionTooLong)
      ELSE [valid |-> TRUE, error |-> Null,
            sanitizedQuestion |-> sanitizeString(question),
            sanitizedOptions |->
              [i \in 1..Len(options) |-> sanitizeString(options[i])]]

validatePollInput(question, options) ==
  LET validOptions == SelectSeq(options, LAMBDA opt : Len(trim(opt)) > 0)
      fail(e) == [valid |-> FALSE, error |-> e,
                  sanitizedQuestion |-> <<>>, sanitizedOptions |-> <<>>]
  IN  IF Len(question) = 0 \/ Len(trim(question)) = 0
        THEN fail(ErrQuestionRequired)
      ELSE IF Len(question) > MaxQuestionLength
        THEN fail(ErrQuestionTooLong)
      ELSE IF Len(validOptions) < MinOptions
        THEN fail(ErrTooFewOptions)
      ELSE IF Len(validOptions) > MaxOptions
        THEN fail(ErrTooManyOptions)
      ELSE IF \E i \in 1..Len(validOptions) :
                Len(validOptions[i]) > MaxOptionLength
        THEN fail(ErrOptionTooLong)
      ELSE [valid |-> TRUE, error |-> Null,
            sanitizedQuestion |-> sanitizeString(question),
            sanitizedOptions |->
              [i \in 1..Len(validOptions) |-> sanitizeString(validOptions[i])]]

(***************************************************************************)
(* Numbers: the double-precision arithmetic of calculatePercentage.  A     *)
(* double is [m, e]: a significand m of 53 bits, most significant first    *)
(* and starting with 1, and an exponent e; its value is m * 2^e.           *)
(***************************************************************************)
SignificandBits == 53

\* the arithmetic works on limbs of 13 bits
LimbBits == 13

Limb == 2 ^ LimbBits

\* the least k with x * 2^k >= y, and x * 2^k
RECURSIVE ScaleUp(_, _, _)
ScaleUp(x, y, k) ==
  IF x >= y THEN [x |-> x, k |-> k] ELSE ScaleUp(2 * x, y, k + 1)

\* the greatest k with y * 2^k <= x, and y * 2^k
RECURSIVE ScaleDown(_, _, _)
ScaleDown(x, y, k) ==
  IF 2 * y > x THEN [y |-> y, k |-> k] ELSE ScaleDown(x, 2 * y, k + 1)

\* the bits of n, most significant first
NatToBits(n, width) == [i \in 1..width |-> (n \div 2 ^ (width - i)) % 2]

RECURSIVE BitsToNat(_)
BitsToNat(bits) ==
  IF bits = <<>> THEN 0
  ELSE 2 * BitsToNat(SubSeq(bits, 1, Len(bits) - 1)) + bits[Len(bits)]

\* the bits of a sequence of limbs, most significant first
LimbsToBits(limbs) ==
  [i \in 1..(LimbBits * Len(limbs)) |->
     NatToBits(limbs[((i - 1) \div LimbBits) + 1],
               LimbBits)[((i - 1) % LimbBits) + 1]]

\* the limbs of a sequence of bits, most significant first
BitsToLimbs(bits) ==
  LET count == ((Len(bits) + LimbBits) - 1) \div LimbBits
      pad == LimbBits * count - Len(bits)
      padded == [i \in 1..(LimbBits * count) |->
                   IF i <= pad THEN 0 ELSE bits[i - pad]]
  IN  [k \in 1..count |->
         BitsToNat(SubSeq(padded, LimbBits * (k - 1) + 1, LimbBits * k))]

\* the next n limbs of rem / den, for rem < den, and the remainder left
RECURSIVE LongDivision(_, _, _)
LongDivision(rem, den, n) ==
  IF n = 0 THEN [limbs |-> <<>>, rem |-> rem]
  ELSE LET rest == LongDivision((rem * Limb) % den, den, n - 1)
       IN  [limbs |-> <<(rem * Limb) \div den>> \o rest.limbs,
            rem |-> rest.rem]

\* the double next above x
NextUp(x) ==
  LET zeros == {i \in 1..Len(x.m) : x.m[i] = 0}
  IN  IF zeros = {}
        THEN [m |-> [i \in 1..Len(x.m) |-> IF i = 1 THEN 1 ELSE 0],
              e |-> x.e + 1]
      ELSE LET j == CHOOSE i \in zeros : \A k \in zeros : k <= i
           IN  [m |-> [i \in 1..Len(x.m) |->
                         IF i < j THEN x.m[i] ELSE IF i = j THEN 1 ELSE 0],
                e |-> x.e]

\* v / t in double precision, rounded to nearest, ties to even
DoubleDivide(v, t) ==
  LET up == ScaleUp(v, t, 0)
      down == ScaleDown(v, t, 0)
      num == up.x
      den == down.y
      shift == down.k - up.k
      tail == LongDivision(num - den, den, (SignificandBits - 1) \div LimbBits)
      quotient == [m |-> <<1>> \o LimbsToBits(tail.limbs),
                   e |-> shift - (SignificandBits - 1)]
  IN  IF \/ 2 * tail.rem > den
         \/ 2 * tail.rem = den /\ quotient.m[SignificandBits] = 1
        THEN NextUp(quotient)
        ELSE quotient

\* 100 times the limbs up to limb k, plus carry
RECURSIVE TimesHundredLimbs(_, _, _)
TimesHundredLimbs(limbs, k, carry) ==
  IF k = 0 THEN <<carry>>
  ELSE TimesHundredLimbs(limbs, k - 1, (100 * limbs[k] + carry) \div Limb)
         \o <<(100 * limbs[k] + carry) % Limb>>

\* d * 100 in double precision, rounded to nearest, ties to even
DoubleTimesHundred(d) ==
  LET limbs == BitsToLimbs(d.m)
      product == LimbsToBits(TimesHundredLimbs(limbs, Len(limbs), 0))
      first == CHOOSE i \in 1..Len(product) :
                 product[i] = 1 /\ \A k \in 1..(i - 1) : product[k] = 0
      bits == SubSeq(product, first, Len(product))
      dropped == Len(bits) - SignificandBits
      kept == [m |-> SubSeq(bits, 1, SignificandBits), e |-> d.e + dropped]
      guard == bits[SignificandBits + 1]
      sticky == \E i \in (SignificandBits + 2)..Len(bits) : bits[i] = 1
  IN  IF guard = 1 /\ (sticky \/ bits[SignificandBits] = 1)
        THEN NextUp(kept)
        ELSE kept

\* Math.round of a positive double: the nearest integer, ties upwards
MathRound(d) ==
  LET whole == Len(d.m) + d.e
  IN  IF whole < 0 THEN 0
      ELSE BitsToNat(SubSeq(d.m, 1, whole))
             + (IF whole < Len(d.m) THEN d.m[whole + 1] ELSE 0)

calculatePercentage(v, totalVotes) ==
  IF totalVotes = 0 \/ v = 0 THEN 0
  ELSE MathRound(DoubleTimesHundred(DoubleDivide(v, totalVotes)))

(***************************************************************************)
(* JavaScript values of the option index: a number is kept as twice its    *)
(* value, so that halves can be told from integers                         *)
(***************************************************************************)
JsNumber(twice) == [t |-> "number", twice |-> twice]

JsInt(i) == JsNumber(2 * i)

JsUndefined == [t |-> "undefined", twice |-> 0]

\* the string "0"
JsString == [t |-> "string", twice |-> 0]

\* Number.isInteger
IsInteger(x) == x.t = "number" /\ x.twice % 2 = 0

(***************************************************************************)
(* Form data submitted to createPoll and updatePoll                        *)
(***************************************************************************)
FormData(f) ==
  CASE f = "ab"      -> [question |-> <<"Q">>, options |-> << <<"a">>, <<"b">> >>]
    [] f = "abc"     -> [question |-> <<"R">>,
                         options |-> << <<"a">>, <<"b">>, <<"c">> >>]
    [] f = "one"     -> [question |-> <<"Q">>, options |-> << <<"a">>, <<" ">>, <<>> >>]
    [] f = "blankq"  -> [question |-> <<" ">>, options |-> << <<"a">>, <<"b">> >>]
    [] f = "longq"   -> [question |-> Rep("q", MaxQuestionLength + 1),
                         options |-> << <<"a">>, <<"b">> >>]
    [] f = "maxq"    -> [question |-> <<" ">> \o Rep("q", MaxQuestionLength - 1),
                         options |-> << <<"a">>, <<"b">> >>]
    [] f = "longopt" -> [question |-> <<"Q">>,
                         options |-> << <<"a">>, Rep("o", MaxOptionLength + 1) >>]
    [] f = "maxopt"  -> [question |-> <<"Q">>,
                         options |-> << Rep("o", MaxOptionLength), <<"b">>, <<" ">> >>]
    [] f = "many"    -> [question |-> <<"Q">>,
                         options |-> [i \in 1..(MaxOptions + 1) |-> <<"a">>]]
    [] f = "ten"     -> [question |-> <<"Q">>,
                         options |-> [i \in 1..(MaxOptions + 1) |->
                                        IF i = 1 THEN <<" ">> ELSE <<"a">>]]
    [] f = "tags"    -> [question |-> <<"<", "b", ">", "Q">>,
                         options |-> << <<"<", "b", ">">>, <<"<", "i", ">">> >>]
    [] f = "padded"  -> [question |-> <<" ", "Q", " ">>,
                         options |-> << <<" ", "<", "b", ">", " ", "a">>, <<"b", " ">> >>]

\* formData.getAll("options").filter(Boolean)
FormOptions(f) == SelectSeq(FormData(f).options, LAMBDA o : Len(o) > 0)

Forms == {"ab", "abc", "one", "blankq", "longq", "maxq", "longopt", "maxopt",
          "many", "ten", "tags", "padded"}

\* validatePollInput(question, options) of every form
FormValidation ==
  [f \in Forms |-> validatePollInput(FormData(f).question, FormOptions(f))]

\* the forms of the specification of validation and sanitization
RichForms == {"ab", "one", "blankq", "longq", "maxq", "longopt", "maxopt",
              "many", "ten", "tags", "padded"}

(***************************************************************************)
(* Users of the authentication service                                     *)
(***************************************************************************)
NoUser == "anon"

AuthFailed == "autherr"

Users == {"u1", "qa", "mod"}

\* the accounts besides: two of the allow-list of the admin pages, one with
\* a capital in "Admin", one with the role "Admin", and two without email
MoreUsers == {"root", "boss", "cap", "lead", "nomail", "ghost"}

\* user.email; an account without email has the empty text
UserEmail(u) ==
  CASE u = "u1" -> <<"u", "1", "@", "x", ".", "i", "o">>
    [] u = "mod" -> <<"m", "o", "d", "@", "x", ".", "i", "o">>
    [] u = "qa" -> <<"q", "a", "-", "a", "d", "m", "i", "n", "@",
                     "c", "o", "r", "p", ".", "c", "o", "m">>
    [] u = "root" -> <<"a", "d", "m", "i", "n", "@", "a", "l", "x", "p", "o",
                       "l", "l", "y", ".", "c", "o", "m">>
    [] u = "boss" -> <<"a", "d", "m", "i", "n", "@", "e", "x", "a", "m", "p",
                       "l", "e", ".", "c", "o", "m">>
    [] u = "cap" -> <<"A", "d", "m", "i", "n", "@", "x", ".", "i", "o">>
    [] u = "lead" -> <<"l", "e", "a", "d", "@", "x", ".", "i", "o">>
    [] u \in {"nomail", "ghost"} -> <<>>

\* user.app_metadata?.role
UserRole(u) ==
  CASE u \in {"mod", "nomail"} -> "admin"
    [] u = "lead" -> "Admin"
    [] OTHER -> "none"

AuthUser(a) == IF a \in Users THEN a ELSE NoUser

(***************************************************************************)
(* Error messages returned by the server actions                           *)
(***************************************************************************)
ErrAuth == "Auth error"
ErrStorage == "Storage error"
ErrForeignKey == "violates foreign key constraint"
ErrIntegerSyntax == "invalid input syntax for type integer"
ErrLoginCreate == "You must be logged in to create a poll."
ErrLoginUpdate == "You must be logged in to update a poll."
ErrLoginDelete == "You must be logged in to delete a poll."
ErrPollNotFound == "Poll not found."
ErrForbiddenDelete == "You can only delete your own polls."
ErrInvalidVote == "Invalid vote data."
ErrInvalidOption == "Invalid option selected."
ErrAlreadyVoted == "You have already voted on this poll."
ErrInvalidPollId == "Invalid poll ID provided."
ErrDatabase == "Database error"
ErrMalformedPoll == "Invalid poll data: missing or empty options."
ErrFailedFetch == "Failed to fetch poll results"
ErrNotAuthenticated == "Not authenticated"

(***************************************************************************)
(* State                                                                   *)
(***************************************************************************)
VARIABLES
  polls,       \* table polls: id -> [user_id, question, options]
  votes,       \* table votes: bag of [poll_id, user_id, option_index]
  nextPollId,  \* the next id gen_random_uuid() gives to a poll
  reqs,        \* the request each slot runs
  returned,    \* the call that has just returned, with its result
  calls,       \* number of server action calls made so far
  view,        \* the last call that only reads or computes, with its result
  provider,    \* the auth service and the state of AuthProvider
  page,        \* the state of AdminPage
  wrapper      \* the state of a component wrapped by withAdminAuth

vars == <<polls, votes, nextPollId, reqs, returned, calls, view,
          provider, page, wrapper>>

\* the state of the browser
client == <<provider, page, wrapper>>

\* requests that can be in flight at the same time
Slots == {1, 2}

PollIds == 1..MaxPolls

\* the empty string as a poll id
EmptyId == 0

\* -1, 0, 2, 0.5 and "0"
OptionIndexes == {JsInt(-1), JsInt(0), JsInt(2), JsNumber(1), JsString}

\* op, auth, pollId, optionIndex, form: the call and its caller;
\* owner: poll.user_id as fetched by deletePoll; error: the result;
\* failed: a storage call of the request failed; changed: the request
\* changed a table; revalidated: revalidatePath("/polls") was called;
\* prior: a vote of the caller on the poll existed when the call began;
\* raced, peerInserted: see Racing
IdleReq ==
  [op |-> "none", pc |-> "idle", auth |-> NoUser, pollId |-> EmptyId,
   optionIndex |-> JsUndefined, form |-> "none", owner |-> NoUser, error |-> Null,
   failed |-> FALSE, changed |-> FALSE, revalidated |-> FALSE,
   prior |-> FALSE, raced |-> FALSE, peerInserted |-> FALSE]

Call(op, auth, pollId, optionIndex, form) ==
  [IdleReq EXCEPT !.op = op, !.auth = auth, !.pollId = pollId,
                  !.optionIndex = optionIndex, !.form = form]

\* a return that reports a storage error after the change was stored
ReturnAfterChange(req, e) ==
  [req EXCEPT !.pc = "done", !.error = IF req.changed THEN ErrStorage ELSE e]

\* the action returns { error: e }
Return(req, e) == [req EXCEPT !.pc = "done", !.error = e]

\* The result of a call is handed to the caller before any request makes its
\* next storage call: handing it over touches no table, so no interleaving of
\* the storage calls is lost.
Delivered == returned.pc = "idle"

Free(r) == Delivered /\ reqs[r].pc = "idle"

\* fn, arg: the function called and its arguments; out: what it returned,
\* once done
NoView == [fn |-> "none", arg |-> <<>>, out |-> <<>>, done |-> FALSE]

Apply(fn, arg) == [fn |-> fn, arg |-> arg, out |-> <<>>, done |-> FALSE]

Result(call, out) == [call EXCEPT !.out = out, !.done = TRUE]

\* account: the user signed in at the auth service; changes: the number of
\* auth-state changes so far; session, user, loading: the state of
\* AuthProvider (no session and no user are NoUser); mounted: the flag of
\* its effect; getUser: where the getUser call of the effect is; data: the
\* user of its response; heard, last: the listener has been called, and the
\* session it was last called with
AuthProviderMounted(account) ==
  [account |-> account, changes |-> 0, session |-> NoUser, user |-> NoUser,
   loading |-> TRUE, mounted |-> TRUE, getUser |-> "pending",
   data |-> NoUser, heard |-> FALSE, last |-> NoUser]

\* no browser: the server actions are called from elsewhere
NoAuthProvider ==
  [AuthProviderMounted(NoUser) EXCEPT !.mounted = FALSE, !.getUser = "done"]

\* no poll id: deleteLoading is null
NoPoll == 0

\* polls, loading, deleteLoading, isAdmin: the state of AdminPage; effect:
\* its effect is due, a dependency having changed since it last ran;
\* pushed: the route last given to router.push; fetching: the
\* fetchAllPolls calls in flight; handlers: the handleDelete calls in
\* flight, each with its pollId and the polls of its closure; removed: the
\* polls whose handleDelete ran after deletePoll returned no error
AdminPageMounted ==
  [mounted |-> TRUE, polls |-> <<>>, loading |-> TRUE,
   deleteLoading |-> NoPoll, isAdmin |-> FALSE, effect |-> TRUE,
   pushed |-> "none", fetching |-> 0, handlers |-> {}, removed |-> {}]

NoAdminPage == [AdminPageMounted EXCEPT !.mounted = FALSE, !.effect = FALSE]

\* isAdmin: the state of WithAdminAuth; effect, pushed: as for AdminPage
WithAdminAuthMounted ==
  [mounted |-> TRUE, isAdmin |-> FALSE, effect |-> TRUE, pushed |-> "none"]

NoWithAdminAuth ==
  [WithAdminAuthMounted EXCEPT !.mounted = FALSE, !.effect = FALSE]

(***************************************************************************)
(* Storage: tables, constraints and row-level security                     *)
(***************************************************************************)
\* a vote inserted without its voter
VoteRowAnonymous(p, u, i) ==
  [poll_id |-> p, user_id |-> NoUser, option_index |-> i]

VoteRow(p, u, i) == [poll_id |-> p, user_id |-> u, option_index |-> i]

\* auth.uid() of the session the storage client runs with
Uid(a) == AuthUser(a)

RlsPollInsert(uid, row) == uid # NoUser /\ uid = row.user_id

RlsPollUpdate(uid, row) == uid # NoUser /\ uid = row.user_id

RlsPollDelete(uid, row) == uid # NoUser /\ uid = row.user_id

RlsVoteInsert(uid, row) == TRUE

\* votes.option_index INTEGER NOT NULL
VoteIndexType(x) == IsInteger(x)

\* votes.poll_id REFERENCES polls(id)
VoteForeignKey(row) == row.poll_id \in DOMAIN polls

\* from("votes").select("id").eq("poll_id", p).eq("user_id", u)
MatchingVotes(p, u) ==
  LET rows == {v \in BagToSet(votes) : v.poll_id = p /\ v.user_id = u}
  IN  BagCardinality([v \in rows |-> votes[v]])

\* .single(): data only when exactly one row matches
SingleVote(p, u) == MatchingVotes(p, u) = 1

\* a foreign key without ON DELETE CASCADE that lets the poll go
CascadeVotesNone(deleted) == votes

\* ON DELETE CASCADE of votes.poll_id
CascadeVotes(deleted) ==
  LET rows == {v \in BagToSet(votes) : v.poll_id \notin deleted}
  IN  [v \in rows |-> votes[v]]

\* an update filtered by the poll id only
UpdateTargetsAnyUser(id, user, uid) == {p \in DOMAIN polls : p = id}

\* an update that lets administrators through, as deletePoll does
UpdateTargetsAdmin(id, user, uid) ==
  {p \in DOMAIN polls :
     p = id /\ user # NoUser
            /\ (polls[p].user_id = user
                  \/ includes(UserEmail(user), <<"a", "d", "m", "i", "n">>))}

\* the rows from("polls").update(..).eq("id", id).eq("user_id", uid) changes
UpdateTargets(id, user, uid) ==
  {p \in DOMAIN polls :
     p = id /\ polls[p].user_id = user /\ RlsPollUpdate(uid, polls[p])}

\* the rows from("polls").delete().eq("id", id) removes
DeleteTargets(id, uid) ==
  {p \in DOMAIN polls : p = id /\ RlsPollDelete(uid, polls[p])}

\* an admin rule that holds of every user
isAdminEveryone(u) == TRUE

isAdmin(u) ==
  includes(UserEmail(u), <<"a", "d", "m", "i", "n">>) \/ UserRole(u) = "admin"

(***************************************************************************)
(* The admin rule of the admin page and of withAdminAuth                   *)
(***************************************************************************)
adminEmails ==
  { <<"a", "d", "m", "i", "n", "@", "a", "l", "x", "p", "o", "l", "l", "y",
      ".", "c", "o", "m">>,
    <<"a", "d", "m", "i", "n", "@", "e", "x", "a", "m", "p", "l", "e",
      ".", "c", "o", "m">> }

\* a rule that only knows the allow-list
userIsAdminListed(u) == UserEmail(u) \in adminEmails

\* userIsAdmin of AdminPage
userIsAdmin(u) ==
  \/ UserEmail(u) \in adminEmails
  \/ includes(UserEmail(u), <<"a", "d", "m", "i", "n">>)
  \/ UserRole(u) = "admin"

\* userIsAdmin of WithAdminAuth
WithAdminAuth_userIsAdmin(u) ==
  \/ UserEmail(u) \in adminEmails
  \/ includes(UserEmail(u), <<"a", "d", "m", "i", "n">>)
  \/ UserRole(u) = "admin"

\* the decision of each of the three places on user u
AdminDecisions(u) ==
  [deletePoll |-> isAdmin(u), adminPage |-> userIsAdmin(u),
   withAdminAuth |-> WithAdminAuth_userIsAdmin(u)]

(***************************************************************************)
(* Initial state: empty tables, no request                                 *)
(***************************************************************************)
Init ==
  /\ polls = <<>>
  /\ votes = EmptyBag
  /\ nextPollId = 1
  /\ reqs = [r \in Slots |-> IdleReq]
  /\ returned = IdleReq
  /\ calls = 0
  /\ view = NoView
  /\ provider = NoAuthProvider
  /\ page = NoAdminPage
  /\ wrapper = NoWithAdminAuth

\* slot r starts a call that returns at once
Returns(r, req, e) ==
  /\ returned' = Return(req, e)
  /\ UNCHANGED reqs

\* slot r starts a call, or continues it, and awaits its next storage call
Awaits(r, req, pc) ==
  /\ reqs' = [reqs EXCEPT ![r] = [req EXCEPT !.pc = pc]]
  /\ UNCHANGED returned

\* the call of slot r returns
Finishes(r, req, e) ==
  /\ returned' = Return(req, e)
  /\ reqs' = [reqs EXCEPT ![r] = IdleReq]

(***************************************************************************)
(* createPoll: one storage call                                            *)
(***************************************************************************)
\* a session check that lets every caller through
NotLoggedInNever(a) == FALSE

\* if (!user)
NotLoggedIn(a) == a = NoUser

\* a row that stores the submitted text as it came
PollRowRaw(user, f) ==
  [user_id |-> user, question |-> FormData(f).question,
   options |-> FormOptions(f)]

\* the row createPoll inserts
PollRow(user, f) ==
  [user_id |-> user,
   question |-> FormValidation[f].sanitizedQuestion,
   options |-> FormValidation[f].sanitizedOptions]

createPoll(r, a, f, maxCalls) ==
  LET validation == FormValidation[f]
      req == Call("createPoll", a, EmptyId, JsUndefined, f)
      row == PollRow(AuthUser(a), f)
  IN  /\ Free(r)
      /\ calls < maxCalls
      /\ nextPollId <= MaxPolls
      /\ calls' = calls + 1
      /\ UNCHANGED votes
      /\ IF ~validation.valid
           THEN /\ Returns(r, req, validation.error)
                /\ UNCHANGED <<polls, nextPollId>>
         ELSE IF a = AuthFailed
           THEN /\ Returns(r, req, ErrAuth)
                /\ UNCHANGED <<polls, nextPollId>>
         ELSE IF NotLoggedIn(a)
           THEN /\ Returns(r, req, ErrLoginCreate)
                /\ UNCHANGED <<polls, nextPollId>>
         ELSE \E ok \in BOOLEAN :
                IF ok /\ RlsPollInsert(Uid(a), row)
                  THEN /\ polls' = (nextPollId :> row) @@ polls
                       /\ nextPollId' = nextPollId + 1
                       /\ Returns(r, [req EXCEPT !.changed = TRUE,
                                                 !.revalidated = TRUE], Null)
                  ELSE /\ Returns(r, [req EXCEPT !.failed = TRUE], ErrStorage)
                       /\ UNCHANGED <<polls, nextPollId>>

(***************************************************************************)
(* updatePoll: one storage call                                            *)
(***************************************************************************)
updatePoll(r, a, id, f, maxCalls) ==
  LET validation == FormValidation[f]
      req == Call("updatePoll", a, id, JsUndefined, f)
      targets == UpdateTargets(id, AuthUser(a), Uid(a))
  IN  /\ Free(r)
      /\ calls < maxCalls
      /\ calls' = calls + 1
      /\ UNCHANGED <<votes, nextPollId>>
      /\ IF ~validation.valid
           THEN /\ Returns(r, req, validation.error)
                /\ UNCHANGED polls
         ELSE IF a = AuthFailed
           THEN /\ Returns(r, req, ErrAuth)
                /\ UNCHANGED polls
         ELSE IF a = NoUser
           THEN /\ Returns(r, req, ErrLoginUpdate)
                /\ UNCHANGED polls
         ELSE \E ok \in BOOLEAN :
                IF ok
                  THEN /\ polls' = [p \in DOMAIN polls |->
                            IF p \in targets
                              THEN [polls[p] EXCEPT
                                      !.question = validation.sanitizedQuestion,
                                      !.options = validation.sanitizedOptions]
                              ELSE polls[p]]
                       /\ Returns(r, [req EXCEPT !.changed = (polls' # polls)],
                                  Null)
                  ELSE /\ Returns(r, [req EXCEPT !.failed = TRUE], ErrStorage)
                       /\ UNCHANGED polls

(***************************************************************************)
(* deletePoll: the poll is fetched, then deleted                           *)
(***************************************************************************)
deletePollFetch(r, a, id, maxCalls) ==
  LET req == Call("deletePoll", a, id, JsUndefined, "none")
  IN  /\ Free(r)
      /\ calls < maxCalls
      /\ calls' = calls + 1
      /\ UNCHANGED <<polls, votes, nextPollId>>
      /\ IF a = AuthFailed
           THEN Returns(r, req, ErrAuth)
         ELSE IF a = NoUser
           THEN Returns(r, req, ErrLoginDelete)
         ELSE \E ok \in BOOLEAN :
                IF ~(ok /\ id \in DOMAIN polls)
                  THEN Returns(r, [req EXCEPT !.failed = ~ok], ErrPollNotFound)
                ELSE LET poll == [req EXCEPT !.owner = polls[id].user_id]
                     IN  IF poll.owner # a /\ ~isAdmin(a)
                           THEN Returns(r, poll, ErrForbiddenDelete)
                           ELSE Awaits(r, poll, "delete")

deletePollDelete(r) ==
  LET req == reqs[r]
      targets == DeleteTargets(req.pollId, Uid(req.auth))
  IN  /\ Delivered
      /\ req.op = "deletePoll"
      /\ req.pc = "delete"
      /\ UNCHANGED <<nextPollId, calls>>
      /\ \E ok \in BOOLEAN :
           IF ok
             THEN /\ polls' = [p \in DOMAIN polls \ targets |-> polls[p]]
                  /\ votes' = CascadeVotes(targets)
                  /\ Finishes(r, [req EXCEPT !.changed = (targets # {}),
                                             !.revalidated = TRUE], Null)
             ELSE /\ Finishes(r, [req EXCEPT !.failed = TRUE], ErrStorage)
                  /\ UNCHANGED <<polls, votes>>

(***************************************************************************)
(* submitVote: the poll is fetched, an existing vote looked up, the vote   *)
(* inserted                                                                *)
(***************************************************************************)
submitVoteFetch(r, a, id, optionIndex, maxCalls) ==
  LET user == AuthUser(a)
      req == [Call("submitVote", a, id, optionIndex, "none") EXCEPT
                !.prior = (user # NoUser /\ MatchingVotes(id, user) > 0)]
  IN  /\ Free(r)
      /\ calls < maxCalls
      /\ calls' = calls + 1
      /\ UNCHANGED <<polls, votes, nextPollId>>
      /\ IF id = EmptyId \/ optionIndex.t # "number" \/ optionIndex.twice < 0
           THEN Returns(r, req, ErrInvalidVote)
         ELSE \E ok \in BOOLEAN :
                LET fetched == [req EXCEPT !.failed = ~ok]
                IN  IF ~(ok /\ id \in DOMAIN polls)
                      THEN Returns(r, fetched, ErrPollNotFound)
                    ELSE IF optionIndex.twice >= 2 * Len(polls[id].options)
                      THEN Returns(r, fetched, ErrInvalidOption)
                    ELSE IF user # NoUser
                      THEN Awaits(r, fetched, "check")
                      ELSE Awaits(r, fetched, "insert")

\* request q of the same user on the same poll as request r has, like r,
\* looked up an existing vote, found none, and not inserted yet
Racing(r, q) ==
  /\ q # r
  /\ reqs[q].op = "submitVote"
  /\ reqs[q].pc = "insert"
  /\ reqs[q].pollId = reqs[r].pollId
  /\ reqs[q].auth = reqs[r].auth

submitVoteCheck(r) ==
  LET req == reqs[r]
  IN  /\ Delivered
      /\ req.op = "submitVote"
      /\ req.pc = "check"
      /\ UNCHANGED <<polls, votes, nextPollId, calls>>
      /\ \E ok \in BOOLEAN :
           LET existingVote == ok /\ SingleVote(req.pollId, AuthUser(req.auth))
               checked == [req EXCEPT !.failed = ~ok]
           IN  IF existingVote
                 THEN Finishes(r, checked, ErrAlreadyVoted)
                 ELSE /\ UNCHANGED returned
                      /\ reqs' = [q \in Slots |->
                           IF q = r
                             THEN [checked EXCEPT
                                     !.pc = "insert",
                                     !.raced = \E o \in Slots : Racing(r, o)]
                           ELSE IF Racing(r, q)
                             THEN [reqs[q] EXCEPT !.raced = TRUE]
                           ELSE reqs[q]]

submitVoteInsert(r) ==
  LET req == reqs[r]
      row == VoteRow(req.pollId, AuthUser(req.auth), req.optionIndex.twice \div 2)
      done == [q \in Slots |-> IF q = r THEN IdleReq
                               ELSE IF Racing(r, q) /\ reqs[q].raced
                                 THEN [reqs[q] EXCEPT !.peerInserted = TRUE]
                               ELSE reqs[q]]
  IN  /\ Delivered
      /\ req.op = "submitVote"
      /\ req.pc = "insert"
      /\ UNCHANGED <<polls, nextPollId, calls>>
      /\ \E ok \in BOOLEAN :
           IF ~ok
             THEN /\ Finishes(r, [req EXCEPT !.failed = TRUE], ErrStorage)
                  /\ UNCHANGED votes
           ELSE IF ~VoteIndexType(req.optionIndex)
             THEN /\ Finishes(r, req, ErrIntegerSyntax)
                  /\ UNCHANGED votes
           ELSE IF ~(VoteForeignKey(row) /\ RlsVoteInsert(Uid(req.auth), row))
             THEN /\ Finishes(r, req, ErrForeignKey)
                  /\ UNCHANGED votes
           ELSE /\ votes' = votes (+) SetToBag({row})
                /\ returned' = Return([req EXCEPT !.changed = TRUE], Null)
                /\ reqs' = done

(***************************************************************************)
(* getPollResults: one storage call, then the counts and percentages       *)
(***************************************************************************)
\* calculatePercentage of the counts and totals the model reaches
PercentageTable ==
  {[votes |-> v, totalVotes |-> total, percentage |-> calculatePercentage(v, total)] :
     v \in 0..(MaxVotes + MaxResultCalls), total \in 0..(MaxVotes + MaxResultCalls)}

Percentage(v, total) ==
  IF \E entry \in PercentageTable : entry.votes = v /\ entry.totalVotes = total
    THEN (CHOOSE entry \in PercentageTable :
            entry.votes = v /\ entry.totalVotes = total).percentage
    ELSE calculatePercentage(v, total)

\* a count that rounds the index down instead of testing Number.isInteger
CountVoteTruncating(optionCounts, vote, optionCount) ==
  IF vote.option_index.t # "number" THEN optionCounts
  ELSE IF /\ vote.option_index.twice >= 0
          /\ vote.option_index.twice < 2 * optionCount
    THEN [optionCounts EXCEPT ![vote.option_index.twice \div 2] = @ + 1]
  ELSE optionCounts

\* the body of votes.forEach; optionCounts is indexed from 0
CountVote(optionCounts, vote, optionCount) ==
  IF vote.option_index.t # "number" THEN optionCounts
  ELSE IF /\ vote.option_index.twice >= 0
          /\ vote.option_index.twice < 2 * optionCount
          /\ IsInteger(vote.option_index)
    THEN [optionCounts EXCEPT ![vote.option_index.twice \div 2] = @ + 1]
  ELSE optionCounts

\* votes.forEach from vote k on
RECURSIVE CountVotesFrom(_, _, _, _)
CountVotesFrom(voteRows, k, optionCounts, optionCount) ==
  IF k > Len(voteRows) THEN optionCounts
  ELSE CountVotesFrom(voteRows, k + 1,
                      CountVote(optionCounts, voteRows[k], optionCount),
                      optionCount)

calculateVoteCounts(voteRows, optionCount) ==
  CountVotesFrom(voteRows, 1, [i \in 0..(optionCount - 1) |-> 0], optionCount)

\* a total of the votes that have a number as option_index
TotalVotesNumbered(voteRows) ==
  Len(SelectSeq(voteRows, LAMBDA vote : vote.option_index.t = "number"))

\* (votes || []).length
TotalVotes(voteRows) == Len(voteRows)

\* a test that only looks for missing options
MalformedOptionsMissing(options) == options.t = "undefined"

\* !poll.options || !Array.isArray(poll.options) || poll.options.length === 0
MalformedOptions(options) == options.t # "array" \/ Len(options.items) = 0

\* what getPollResults returns
Outcome(results, error) == [results |-> results, error |-> error]

\* getPollResults(pollId) when the storage call answers response: code is the
\* error code or Null, data has the row when there is one; the options and
\* the votes of the row are [t, items], t being the type of the value
getPollResultsFrom(pollId, response) ==
  IF Len(pollId) = 0 \/ Len(trim(pollId)) = 0
    THEN Outcome(<<>>, ErrInvalidPollId)
  ELSE IF response.code # Null
    THEN IF response.code = "PGRST116"
           THEN Outcome(<<>>, ErrPollNotFound)
           ELSE Outcome(<<>>, ErrDatabase)
  ELSE IF response.data = <<>>
    THEN Outcome(<<>>, ErrPollNotFound)
  ELSE LET row == response.data[1]
           poll == [id |-> row.id, question |-> row.question,
                    options |-> row.options, user_id |-> row.user_id]
       IN  IF MalformedOptions(row.options)
             THEN Outcome(<<>>, ErrMalformedPoll)
           ELSE IF row.votes.t \notin {"array", "null"}
             THEN Outcome(<<>>, ErrFailedFetch)
           ELSE LET voteRows == IF row.votes.t = "array" THEN row.votes.items
                                ELSE <<>>
                    optionCount == Len(row.options.items)
                    optionCounts == calculateVoteCounts(voteRows, optionCount)
                    totalVotes == TotalVotes(voteRows)
                    results ==
                      [poll |-> poll,
                       options |->
                         [i \in 1..optionCount |->
                            [text |-> row.options.items[i],
                             votes |-> optionCounts[i - 1],
                             percentage |->
                               Percentage(optionCounts[i - 1], totalVotes)]],
                       totalVotes |-> totalVotes]
                IN  Outcome(<<results>>, Null)

\* the text of the id of poll p, a uuid
IdText(p) == <<"p", <<"1", "2", "3", "4", "5", "6", "7", "8", "9">>[p]>>

IsUuid(text) == \E p \in 1..9 : IdText(p) = text

JsArray(items) == [t |-> "array", items |-> items]

\* the rows of a bag, in some order
RECURSIVE SeqOfRows(_, _)
SeqOfRows(rows, bag) ==
  IF rows = {} THEN <<>>
  ELSE LET v == CHOOSE x \in rows : TRUE
       IN  [i \in 1..bag[v] |-> v] \o SeqOfRows(rows \ {v}, bag)

\* an embedding without the join on poll_id: the votes of every poll
EmbeddedVotesOfAll(p) ==
  LET ofAll == SeqOfRows(BagToSet(votes), votes)
  IN  [i \in 1..Len(ofAll) |->
         [option_index |-> JsInt(ofAll[i].option_index)]]

\* votes(option_index) of poll p
EmbeddedVotes(p) ==
  LET rows == {v \in BagToSet(votes) : v.poll_id = p}
      ofPoll == SeqOfRows(rows, votes)
  IN  [i \in 1..Len(ofPoll) |->
         [option_index |-> JsInt(ofPoll[i].option_index)]]

\* from("polls").select("id, question, options, user_id, created_at,
\* votes(option_index)").eq("id", id).single()
SelectPollWithVotes(id, ok) ==
  IF ~ok \/ ~IsUuid(id) THEN [code |-> "OTHER", data |-> <<>>]
  ELSE LET found == {p \in DOMAIN polls : IdText(p) = id}
       IN  IF found = {} THEN [code |-> "PGRST116", data |-> <<>>]
           ELSE LET p == CHOOSE q \in found : TRUE
                IN  [code |-> Null,
                     data |-> << [id |-> p, question |-> polls[p].question,
                                  options |-> JsArray(polls[p].options),
                                  user_id |-> polls[p].user_id,
                                  votes |-> JsArray(EmbeddedVotes(p))] >>]

\* the poll ids getPollResults is called with: empty, blank, malformed, and
\* the ids of polls, one of them padded
ResultIds ==
  {<<>>, <<" ">>, <<"z">>, <<" ">> \o IdText(1) \o <<" ">>}
    \cup {IdText(p) : p \in PollIds}

getPollResults(pollId) ==
  /\ Delivered
  /\ \E ok \in BOOLEAN :
       LET response == SelectPollWithVotes(trim(pollId), ok)
           call == Apply("getPollResults",
                         [pollId |-> pollId, response |-> response])
       IN  view' = Result(call, getPollResultsFrom(pollId, response))
  /\ UNCHANGED <<polls, votes, nextPollId, reqs, returned, calls, client>>

(***************************************************************************)
(* hasUserVoted: one storage call                                          *)
(***************************************************************************)
\* from("votes").select("id").eq("poll_id", p).eq("user_id", u).single():
\* code is the error code or Null, rows the number of rows that matched
\* (the error of single() tells it), data is whether a row came back
SelectSingleVote(p, u, ok) ==
  IF ~ok THEN [code |-> "OTHER", rows |-> 0, data |-> FALSE]
  ELSE IF SingleVote(p, u)
    THEN [code |-> Null, rows |-> 1, data |-> TRUE]
  ELSE [code |-> "PGRST116", rows |-> MatchingVotes(p, u), data |-> FALSE]

\* what hasUserVoted returns
Voted(hasVoted, error) == [hasVoted |-> hasVoted, error |-> error]

\* hasUserVoted(pollId) of a caller with a session, when the storage call
\* answers response
hasUserVotedFrom(response) ==
  IF response.code # Null /\ response.code # "PGRST116"
    THEN Voted(FALSE, ErrStorage)
    ELSE Voted(response.data, Null)

hasUserVoted(a, pollId) ==
  /\ Delivered
  /\ \E ok \in BOOLEAN :
       LET user == AuthUser(a)
           response == IF user = NoUser
                         THEN [code |-> Null, rows |-> 0, data |-> FALSE]
                         ELSE SelectSingleVote(pollId, user, ok)
           call == Apply("hasUserVoted",
                         [auth |-> a, pollId |-> pollId, response |-> response])
       IN  view' = Result(call, IF user = NoUser THEN Voted(FALSE, Null)
                                ELSE hasUserVotedFrom(response))
  /\ UNCHANGED <<polls, votes, nextPollId, reqs, returned, calls, client>>

(***************************************************************************)
(* getUserPolls: one storage call                                          *)
(***************************************************************************)
\* created_at of poll p: polls get their ids in the order they are created
CreatedAt(p) == p

\* .order("created_at", { ascending: false }) of the rows ids
RECURSIVE OrderNewestFirst(_)
OrderNewestFirst(ids) ==
  IF ids = {} THEN <<>>
  ELSE LET newest == CHOOSE p \in ids :
                       \A q \in ids : CreatedAt(q) <= CreatedAt(p)
       IN  <<newest>> \o OrderNewestFirst(ids \ {newest})

\* a row of polls as select("*") returns it
SelectedPoll(p) ==
  [id |-> p, user_id |-> polls[p].user_id, question |-> polls[p].question,
   options |-> polls[p].options]

\* a select without the filter on user_id
SelectPollsOfAnyone(u) ==
  LET ordered == OrderNewestFirst(DOMAIN polls)
  IN  [i \in 1..Len(ordered) |-> SelectedPoll(ordered[i])]

\* from("polls").select("*").eq("user_id", u).order("created_at", ..)
SelectPollsOf(u) ==
  LET ordered == OrderNewestFirst({p \in DOMAIN polls : polls[p].user_id = u})
  IN  [i \in 1..Len(ordered) |-> SelectedPoll(ordered[i])]

\* what getUserPolls returns
UserPolls(rows, error) == [polls |-> rows, error |-> error]

getUserPolls(a) ==
  /\ Delivered
  /\ \E ok \in BOOLEAN :
       LET user == AuthUser(a)
           call == Apply("getUserPolls", [auth |-> a, ok |-> ok])
       IN  view' = Result(call,
                          IF user = NoUser THEN UserPolls(<<>>, ErrNotAuthenticated)
                          ELSE IF ~ok THEN UserPolls(<<>>, ErrStorage)
                          ELSE UserPolls(SelectPollsOf(user), Null))
  /\ UNCHANGED <<polls, votes, nextPollId, reqs, returned, calls, client>>

(***************************************************************************)
(* The caller receives { error } of the call that returned                 *)
(***************************************************************************)
respond ==
  /\ returned.pc = "done"
  /\ returned' = IdleReq
  /\ UNCHANGED <<polls, votes, nextPollId, reqs, calls>>

(***************************************************************************)
(* Specifications                                                          *)
(***************************************************************************)
NextOf(slots, auths, forms, ids, indexes, maxCalls) ==
  /\ UNCHANGED <<view, client>>
  /\ \/ respond
     \/ \E r \in slots :
       \/ \E a \in auths, f \in forms : createPoll(r, a, f, maxCalls)
       \/ \E a \in auths, id \in PollIds, f \in forms :
            updatePoll(r, a, id, f, maxCalls)
       \/ \E a \in auths, id \in PollIds : deletePollFetch(r, a, id, maxCalls)
       \/ deletePollDelete(r)
       \/ \E a \in auths, id \in ids, i \in indexes :
            submitVoteFetch(r, a, id, i, maxCalls)
       \/ submitVoteCheck(r)
       \/ submitVoteInsert(r)

\* concurrent requests on small polls
Next == NextOf(Slots, {"u1", "qa", "mod", NoUser, AuthFailed}, {"ab", "abc"},
               PollIds, {JsInt(0), JsInt(2)}, MaxCalls)

Spec == Init /\ [][Next]_vars

\* concurrent requests of one user and of anonymous callers
NextVotes == NextOf(Slots, {"u1", NoUser}, {"ab"}, PollIds,
                    {JsInt(0), JsInt(1)}, MaxVoteCalls)

SpecVotes == Init /\ [][NextVotes]_vars

\* one request at a time, with the forms that exercise validation
NextForms == NextOf({1}, {"u1", NoUser, AuthFailed}, RichForms,
                    PollIds \cup {EmptyId}, OptionIndexes, MaxFormCalls)

SpecForms == Init /\ [][NextForms]_vars

(***************************************************************************)
(* The functions that only compute, applied to arguments drawn from        *)
(* bounded sets                                                            *)
(***************************************************************************)
Questions ==
  { <<>>, <<" ">>, <<"Q">>, <<" ", "Q", " ">>, <<"<", "b", ">", "Q">>,
    <<" ", "<", "b", ">", " ", "Q">>, <<"Q", "<", "b">>,
    Rep("q", MaxQuestionLength), Rep("q", MaxQuestionLength + 1) }

\* an option besides the plain and the blank ones
SpecialOptions ==
  { Rep("o", MaxOptionLength), Rep("o", MaxOptionLength + 1),
    <<"<", "b", ">">>, <<" ", "<", "b", ">", " ", "a">>,
    <<"<", "<", "b", ">", ">">>, <<"a", " ", "<", "i", ">", " ">> }

\* blank entries, then plain options, then special ones
OptionArrays ==
  { [i \in 1..blank |-> <<" ">>] \o [i \in 1..plain |-> <<"a">>] \o special :
      blank \in 0..MaxBlank, plain \in 0..MaxPlain,
      special \in {<<>>} \cup {<<o>> : o \in SpecialOptions} }

ValidationCalls ==
  { Apply("validatePollInput", [question |-> q, options |-> o]) :
      q \in Questions, o \in OptionArrays }

applyValidatePollInput ==
  /\ view.fn = "validatePollInput"
  /\ ~view.done
  /\ view' = Result(view, validatePollInput(view.arg.question,
                                            view.arg.options))
  /\ UNCHANGED <<polls, votes, nextPollId, reqs, returned, calls, client>>

\* option_index of a vote: missing, 1.5, -1, 0, 1, 2
VoteValues == {JsUndefined, JsNumber(3), JsInt(-1), JsInt(0), JsInt(1), JsInt(2)}

VoteArrays ==
  UNION {[1..n -> {[option_index |-> x] : x \in VoteValues}] : n \in 0..MaxVotes}

StoredOptions ==
  { JsArray(<< <<"A">> >>), JsArray(<< <<"A">>, <<"B">> >>),
    JsArray(<< <<"A">>, <<"B">>, <<"C">> >>) }

\* options that are missing, not an array, or empty
BrokenOptions ==
  { [t |-> "undefined", items |-> <<>>], [t |-> "string", items |-> <<>>],
    JsArray(<<>>) }

PollWithVotes(options, voteRows) ==
  [id |-> 1, question |-> <<"Q">>, options |-> options, user_id |-> "u1",
   votes |-> voteRows]

\* what the storage call of getPollResults can answer
Responses ==
  { [code |-> "PGRST116", data |-> <<>>], [code |-> "OTHER", data |-> <<>>],
    [code |-> Null, data |-> <<>>] }
    \cup { [code |-> Null, data |-> <<PollWithVotes(o, JsArray(rows))>>] :
             o \in StoredOptions, rows \in VoteArrays }
    \cup { [code |-> Null, data |-> <<PollWithVotes(o, JsArray(<<>>))>>] :
             o \in BrokenOptions }
    \cup { [code |-> Null,
            data |-> <<PollWithVotes(o, [t |-> other, items |-> <<>>])>>] :
             o \in StoredOptions, other \in {"null", "object"} }

ResultsCalls ==
  { Apply("getPollResults", [pollId |-> IdText(1), response |-> response]) :
      response \in Responses }
    \cup { Apply("getPollResults",
                 [pollId |-> pollId,
                  response |-> [code |-> Null,
                                data |-> <<PollWithVotes(
                                   JsArray(<< <<"A">>, <<"B">> >>),
                                   JsArray(<<>>))>>]]) :
             pollId \in {<<>>, <<" ">>, <<" ">> \o IdText(1)} }

applyGetPollResults ==
  /\ view.fn = "getPollResults"
  /\ ~view.done
  /\ view' = Result(view, getPollResultsFrom(view.arg.pollId,
                                             view.arg.response))
  /\ UNCHANGED <<polls, votes, nextPollId, reqs, returned, calls, client>>

PercentageCalls ==
  { Apply("calculatePercentage", [votes |-> v, totalVotes |-> total]) :
      v \in 0..MaxTotal, total \in 0..MaxTotal }

applyCalculatePercentage ==
  /\ view.fn = "calculatePercentage"
  /\ ~view.done
  /\ view' = Result(view, calculatePercentage(view.arg.votes,
                                              view.arg.totalVotes))
  /\ UNCHANGED <<polls, votes, nextPollId, reqs, returned, calls, client>>

AdminCalls ==
  { Apply("isAdmin", [user |-> u]) : u \in Users \cup MoreUsers }

applyIsAdmin ==
  /\ view.fn = "isAdmin"
  /\ ~view.done
  /\ view' = Result(view, AdminDecisions(view.arg.user))
  /\ UNCHANGED <<polls, votes, nextPollId, reqs, returned, calls, client>>

PureCalls ==
  ValidationCalls \cup ResultsCalls \cup PercentageCalls \cup AdminCalls

InitPure ==
  /\ polls = <<>>
  /\ votes = EmptyBag
  /\ nextPollId = 1
  /\ reqs = [r \in Slots |-> IdleReq]
  /\ returned = IdleReq
  /\ calls = 0
  /\ view \in PureCalls
  /\ provider = NoAuthProvider
  /\ page = NoAdminPage
  /\ wrapper = NoWithAdminAuth

NextPure ==
  \/ applyValidatePollInput
  \/ applyGetPollResults
  \/ applyCalculatePercentage
  \/ applyIsAdmin

SpecPure == InitPure /\ [][NextPure]_vars

\* one request at a time, and the results read in between
NextResults ==
  \/ NextOf({1}, {"u1", NoUser}, {"ab", "abc"}, PollIds,
            {JsInt(0), JsInt(1), JsInt(2)}, MaxResultCalls)
  \/ \E pollId \in ResultIds : getPollResults(pollId)

SpecResults == Init /\ [][NextResults]_vars

\* concurrent requests of two users, and what each reads in between
NextReads ==
  \/ NextOf(Slots, {"u1", "qa", NoUser}, {"ab"}, PollIds, {JsInt(0)},
            MaxReadCalls)
  \/ \E a \in {"u1", "qa", NoUser, AuthFailed}, pollId \in PollIds :
       hasUserVoted(a, pollId)
  \/ \E a \in {"u1", "qa", NoUser, AuthFailed} : getUserPolls(a)

SpecReads == Init /\ [][NextReads]_vars

(***************************************************************************)
(* AuthProvider: its effect calls getUser and subscribes the listener      *)
(***************************************************************************)
\* the users of the browser: an administrator and another user
Visitors == {"qa", "u1"}

\* a component that reads the context renders again when the context
\* changes; its effect is due when user or loading changed (the user of a
\* response or of a session is a new object every time)
Rendered(component, user, loading) ==
  [component EXCEPT
     !.effect = @ \/ (/\ component.mounted
                      /\ \/ user # NoUser
                         \/ user # provider.user
                         \/ loading # provider.loading)]

\* the listener given to onAuthStateChange, called with session
onAuthStateChange(session) ==
  [provider EXCEPT !.session = session, !.user = session,
                   !.heard = TRUE, !.last = session]

\* the auth service signs user u in, signs out (u is NoUser) or renews the
\* session of u, and calls the listener while it is subscribed
authStateChange(u) ==
  /\ provider.changes < MaxAuthEvents
  /\ LET told == IF provider.mounted THEN onAuthStateChange(u) ELSE provider
     IN  /\ provider' = [told EXCEPT !.account = u, !.changes = @ + 1]
         /\ page' = Rendered(page, told.user, told.loading)
         /\ wrapper' = Rendered(wrapper, told.user, told.loading)
  /\ UNCHANGED <<polls, votes, nextPollId, reqs, returned, calls, view>>

\* the auth service answers supabase.auth.getUser(): the user signed in, or
\* an error and no user
getUserResponse ==
  /\ provider.getUser = "pending"
  /\ \E ok \in BOOLEAN :
       provider' = [provider EXCEPT
                      !.getUser = "served",
                      !.data = IF ok THEN provider.account ELSE NoUser]
  /\ UNCHANGED <<polls, votes, nextPollId, reqs, returned, calls, view,
                 page, wrapper>>

\* getUser after its await
getUser ==
  /\ provider.getUser = "served"
  /\ LET set == IF provider.mounted
                  THEN [provider EXCEPT !.user = provider.data,
                                        !.session = NoUser,
                                        !.loading = FALSE]
                  ELSE provider
     IN  /\ provider' = [set EXCEPT !.getUser = "done"]
         /\ page' = Rendered(page, set.user, set.loading)
         /\ wrapper' = Rendered(wrapper, set.user, set.loading)
  /\ UNCHANGED <<polls, votes, nextPollId, reqs, returned, calls, view>>

\* the cleanup of the effect, when AuthProvider and the components under it
\* are unmounted
unmount ==
  /\ provider.mounted
  /\ provider' = [provider EXCEPT !.mounted = FALSE]
  /\ page' = [page EXCEPT !.mounted = FALSE]
  /\ wrapper' = [wrapper EXCEPT !.mounted = FALSE]
  /\ UNCHANGED <<polls, votes, nextPollId, reqs, returned, calls, view>>

(***************************************************************************)
(* AdminPage; of the rows of its list of polls the model keeps the ids     *)
(***************************************************************************)
\* what AdminPage renders
AdminPageScreen ==
  IF ~page.mounted THEN "none"
  ELSE IF provider.loading \/ page.loading THEN "Loading..."
  ELSE IF ~page.isAdmin THEN "Access Denied"
  ELSE "Admin Panel"

\* the effect of AdminPage
AdminPageEffect ==
  /\ page.mounted
  /\ page.effect
  /\ page' =
       IF ~provider.loading /\ provider.user # NoUser
         THEN IF userIsAdmin(provider.user)
                THEN [page EXCEPT !.effect = FALSE, !.isAdmin = TRUE,
                                  !.fetching = @ + 1]
                ELSE [page EXCEPT !.effect = FALSE, !.pushed = "/polls"]
       ELSE IF ~provider.loading
         THEN [page EXCEPT !.effect = FALSE, !.pushed = "/login"]
       ELSE [page EXCEPT !.effect = FALSE]
  /\ UNCHANGED <<polls, votes, nextPollId, reqs, returned, calls, view,
                 provider, wrapper>>

\* fetchAllPolls after its await; a state update of a component that is
\* unmounted does nothing
fetchAllPolls ==
  /\ page.fetching > 0
  /\ \E ok \in BOOLEAN :
       page' = [page EXCEPT
                  !.fetching = @ - 1,
                  !.polls = IF ok /\ page.mounted
                              THEN OrderNewestFirst(DOMAIN polls) ELSE @,
                  !.loading = IF page.mounted THEN FALSE ELSE @]
  /\ UNCHANGED <<polls, votes, nextPollId, reqs, returned, calls, view,
                 provider, wrapper>>

\* a click on the Delete button of poll pollId: handleDelete up to its await
\* of deletePoll, which runs with the session of the browser.  The model
\* keeps one handleDelete call in flight for a poll.
handleDelete(r, pollId) ==
  /\ AdminPageScreen = "Admin Panel"
  /\ \E i \in 1..Len(page.polls) : page.polls[i] = pollId
  /\ page.deleteLoading # pollId
  /\ \A h \in page.handlers : h.pollId # pollId
  /\ deletePollFetch(r, provider.account, pollId, MaxDeleteCalls)
  /\ page' = [page EXCEPT
                !.deleteLoading = pollId,
                !.handlers = @ \cup {[pollId |-> pollId, polls |-> page.polls]}]
  /\ UNCHANGED <<view, provider, wrapper>>

\* setPolls(polls.filter((poll) => poll.id !== pollId)) when deletePoll
\* returned no error: polls is the list of the closure of the handler
usePolls_handleDelete(closure, pollId, error, current) ==
  IF error = Null THEN SelectSeq(closure, LAMBDA id : id # pollId)
  ELSE current

\* handleDelete after its await of deletePoll
handleDeleteReturned ==
  /\ returned.pc = "done"
  /\ returned' = IdleReq
  /\ LET h == CHOOSE x \in page.handlers : x.pollId = returned.pollId
     IN  page' = [page EXCEPT
                    !.handlers = @ \ {h},
                    !.polls = IF page.mounted
                                THEN usePolls_handleDelete(
                                       h.polls, returned.pollId,
                                       returned.error, @)
                                ELSE @,
                    !.removed = IF returned.error = Null
                                  THEN @ \cup {returned.pollId} ELSE @,
                    !.deleteLoading = IF page.mounted THEN NoPoll ELSE @]
  /\ UNCHANGED <<polls, votes, nextPollId, reqs, calls, view, provider,
                 wrapper>>

\* the router takes the browser to the route AdminPage pushed
navigate ==
  /\ page.mounted
  /\ page.pushed # "none"
  /\ page' = [page EXCEPT !.mounted = FALSE]
  /\ UNCHANGED <<polls, votes, nextPollId, reqs, returned, calls, view,
                 provider, wrapper>>

(***************************************************************************)
(* withAdminAuth                                                           *)
(***************************************************************************)
\* what WithAdminAuth renders
WithAdminAuthScreen ==
  IF ~wrapper.mounted THEN "none"
  ELSE IF provider.loading THEN "Loading..."
  ELSE IF ~wrapper.isAdmin THEN "Access Denied"
  ELSE "WrappedComponent"

\* the effect of WithAdminAuth
WithAdminAuthEffect ==
  /\ wrapper.mounted
  /\ wrapper.effect
  /\ wrapper' =
       IF ~provider.loading /\ provider.user # NoUser
         THEN IF WithAdminAuth_userIsAdmin(provider.user)
                THEN [wrapper EXCEPT !.effect = FALSE, !.isAdmin = TRUE]
                ELSE [wrapper EXCEPT !.effect = FALSE, !.pushed = "/polls"]
       ELSE IF ~provider.loading
         THEN [wrapper EXCEPT !.effect = FALSE, !.pushed = "/login"]
       ELSE [wrapper EXCEPT !.effect = FALSE]
  /\ UNCHANGED <<polls, votes, nextPollId, reqs, returned, calls, view,
                 provider, page>>

\* the router takes the browser to the route WithAdminAuth pushed
WithAdminAuthNavigate ==
  /\ wrapper.mounted
  /\ wrapper.pushed # "none"
  /\ wrapper' = [wrapper EXCEPT !.mounted = FALSE]
  /\ UNCHANGED <<polls, votes, nextPollId, reqs, returned, calls, view,
                 provider, page>>

(***************************************************************************)
(* The browser: AuthProvider with AdminPage and a wrapped component under  *)
(* it, and the deletePoll calls of AdminPage on the server                 *)
(***************************************************************************)

\* polls are stored (those with an odd id by qa, the others by u1),
\* AuthProvider and the components have been mounted and rendered once, and
\* getUser is awaiting its response
InitAdmin ==
  /\ polls = [p \in PollIds |-> PollRow(IF p % 2 = 1 THEN "qa" ELSE "u1", "ab")]
  /\ votes = EmptyBag
  /\ nextPollId = MaxPolls + 1
  /\ reqs = [r \in Slots |-> IdleReq]
  /\ returned = IdleReq
  /\ calls = 0
  /\ view = NoView
  /\ provider \in {AuthProviderMounted(a) : a \in Visitors \cup {NoUser}}
  /\ page = AdminPageMounted
  /\ wrapper = WithAdminAuthMounted

NextAdmin ==
  \/ \E u \in Visitors \cup {NoUser} : authStateChange(u)
  \/ getUserResponse
  \/ getUser
  \/ unmount
  \/ AdminPageEffect
  \/ fetchAllPolls
  \/ \E r \in Slots, pollId \in PollIds : handleDelete(r, pollId)
  \/ \E r \in Slots : deletePollDelete(r) /\ UNCHANGED <<view, client>>
  \/ handleDeleteReturned
  \/ navigate
  \/ WithAdminAuthEffect
  \/ WithAdminAuthNavigate

SpecAdmin == InitAdmin /\ [][NextAdmin]_vars

\* effects run after the render that made them due, a call that is awaited
\* returns, and the router goes to the route it was given
SpecAdminLive ==
  /\ InitAdmin
  /\ [][NextAdmin]_vars
  /\ WF_vars(getUserResponse)
  /\ WF_vars(getUser)
  /\ WF_vars(AdminPageEffect)
  /\ WF_vars(fetchAllPolls)
  /\ WF_vars(WithAdminAuthEffect)
  /\ WF_vars(handleDeleteReturned)
  /\ WF_vars(navigate)
  /\ WF_vars(WithAdminAuthNavigate)
  /\ WF_vars(\E r \in Slots : deletePollDelete(r) /\ UNCHANGED <<view, client>>)

TypeOK ==
  /\ DOMAIN polls \subseteq PollIds
  /\ nextPollId \in 1..(MaxPolls + 1)
  /\ calls \in Nat
  /\ \A r \in Slots : reqs[r].pc \in {"idle", "delete", "check", "insert"}
  /\ returned.pc \in {"idle", "done"}

(***************************************************************************)
(* Properties                                                              *)
(***************************************************************************)
\* the step is a call that returns without awaiting a second storage call;
\* returned' is then that call and its result
ReturnsAtOnce == calls' = calls + 1 /\ reqs' = reqs

VoterOf(req) == AuthUser(req.auth)

\* C1: for every poll and every authenticated user there is at most one vote
\* row of that user on that poll, in every reachable state.
C1_AtMostOneVote ==
  \A p \in PollIds, u \in Users : MatchingVotes(p, u) <= 1

\* C2: a submitVote call of an authenticated user that begins after a vote of
\* that user on that poll was stored, on a poll that still exists, with an
\* option index the action accepts, and none of whose storage calls fails,
\* returns 'You have already voted on this poll.' and inserts no row.
C2_SecondVoteRejected ==
  (/\ returned.op = "submitVote"
   /\ returned.prior
   /\ ~returned.failed
   /\ returned.error \notin {ErrInvalidVote, ErrInvalidOption}
   /\ returned.pollId \in DOMAIN polls)
    => returned.error = ErrAlreadyVoted /\ ~returned.changed

AdminEmails ==
  { <<"a", "d", "m", "i", "n", "@", "a", "l", "x", "p", "o", "l", "l", "y",
      ".", "c", "o", "m">>,
    <<"a", "d", "m", "i", "n", "@", "e", "x", "a", "m", "p", "l", "e",
      ".", "c", "o", "m">> }

\* the admin classification of the specification: the email is on the
\* allow-list, or contains "admin", or the role is "admin"
ClassifiedAdmin(u) ==
  \/ UserEmail(u) \in AdminEmails
  \/ includes(UserEmail(u), <<"a", "d", "m", "i", "n">>)
  \/ UserRole(u) = "admin"

\* the caller of the deletePoll call req is neither the owner of the poll it
\* fetched nor an administrator
NotOwnerNorAdmin(req) ==
  /\ req.auth \in Users
  /\ req.owner # NoUser
  /\ req.owner # req.auth
  /\ ~ClassifiedAdmin(req.auth)

C4_Removal ==
  \A p \in DOMAIN polls :
    p \notin DOMAIN polls' =>
      /\ returned'.op = "deletePoll"
      /\ returned'.pollId = p
      /\ returned'.auth \in Users
      /\ \/ returned'.auth = polls[p].user_id
         \/ ClassifiedAdmin(returned'.auth)

C4_Refusal ==
  (ReturnsAtOnce /\ returned'.op = "deletePoll") =>
     /\ returned'.auth \notin Users =>
          /\ returned'.error \in {ErrLoginDelete, ErrAuth}
          /\ UNCHANGED <<polls, votes>>
     /\ NotOwnerNorAdmin(returned') =>
          /\ returned'.error = ErrForbiddenDelete
          /\ UNCHANGED <<polls, votes>>

C4_NoLateRemoval ==
  (returned.op = "deletePoll" /\ returned.error = Null) =>
     /\ returned.auth \in Users
     /\ ~NotOwnerNorAdmin(returned)

\* C4: a step removes a poll only if it is a deletePoll call of an
\* authenticated caller who owns the poll or is classified admin; a
\* deletePoll call of an unauthenticated caller returns the login (or auth)
\* error, one of an authenticated caller who is neither owner nor admin
\* returns 'You can only delete your own polls.', and both leave the polls
\* and votes tables unchanged.
C4_DeleteNeedsOwnerOrAdmin ==
  [][C4_Removal /\ C4_Refusal]_vars /\ []C4_NoLateRemoval

C4_Witness ==
  /\ returned.op = "deletePoll"
  /\ returned.error = ErrForbiddenDelete
  /\ returned.pollId \in DOMAIN polls
  /\ polls[returned.pollId].user_id # returned.auth

\* C5: a deletePoll call of an authenticated caller who owns the fetched poll
\* or is classified admin, none of whose storage calls fails, returns no
\* error, and afterwards no poll has that id.
C5_OwnerOrAdminDeletes ==
  (/\ returned.op = "deletePoll"
   /\ returned.auth \in Users
   /\ returned.owner # NoUser
   /\ (returned.owner = returned.auth \/ ClassifiedAdmin(returned.auth))
   /\ ~returned.failed)
    => returned.error = Null /\ returned.pollId \notin DOMAIN polls

\* C6: an updatePoll call with valid input of an authenticated caller who is
\* not the owner of the poll, whose storage call does not fail, returns no
\* error and leaves every poll row unchanged.
C6_NonOwnerUpdateChangesNothing ==
  [][(/\ ReturnsAtOnce
      /\ returned'.op = "updatePoll"
      /\ FormValidation[returned'.form].valid
      /\ returned'.auth \in Users
      /\ returned'.pollId \in DOMAIN polls
      /\ polls[returned'.pollId].user_id # returned'.auth
      /\ ~returned'.failed)
       => returned'.error = Null /\ polls' = polls]_vars

C6_Witness ==
  /\ returned.op = "updatePoll"
  /\ returned.auth \in Users
  /\ returned.error = Null
  /\ ~returned.changed
  /\ returned.pollId \in DOMAIN polls
  /\ polls[returned.pollId].user_id # returned.auth
  /\ polls[returned.pollId].question # FormValidation[returned.form].sanitizedQuestion

\* C7: the user_id of a poll never changes while the poll exists, and its
\* question or options change only in a step that is an updatePoll call of
\* the caller whose id is the poll's user_id.
C7_OnlyOwnerMutates ==
  [][\A p \in DOMAIN polls \cap DOMAIN polls' :
       /\ polls'[p].user_id = polls[p].user_id
       /\ polls'[p] # polls[p] =>
            /\ ReturnsAtOnce
            /\ returned'.op = "updatePoll"
            /\ returned'.pollId = p
            /\ returned'.auth = polls[p].user_id]_vars

C7_Witness ==
  /\ returned.op = "updatePoll"
  /\ returned.changed
  /\ returned.pollId \in DOMAIN polls
  /\ polls[returned.pollId].user_id = returned.auth
  /\ polls[returned.pollId].options = FormValidation[returned.form].sanitizedOptions

\* C8: every stored poll has between 2 and 10 options, each non-empty after
\* trimming and of at most 200 characters, and a question of at most 500
\* characters.
C8_StoredPollsWellFormed ==
  \A p \in DOMAIN polls :
    /\ Len(polls[p].options) >= MinOptions
    /\ Len(polls[p].options) <= MaxOptions
    /\ \A i \in 1..Len(polls[p].options) :
         /\ Len(trim(polls[p].options[i])) > 0
         /\ Len(polls[p].options[i]) <= MaxOptionLength
    /\ Len(polls[p].question) <= MaxQuestionLength

\* C9: the option_index of every stored vote is at least 0 and less than the
\* number of options of the poll the vote references.
C9_VoteIndexInRange ==
  \A v \in BagToSet(votes) :
    /\ v.poll_id \in DOMAIN polls
    /\ v.option_index >= 0
    /\ v.option_index < Len(polls[v.poll_id].options)

\* C10: a step changes the question or options of a poll only if no vote
\* row references the poll.
C10_UpdateOnlyWithoutVotes ==
  [][\A p \in DOMAIN polls \cap DOMAIN polls' :
       polls'[p] # polls[p] =>
         \A v \in BagToSet(votes) : v.poll_id # p]_vars

\* C11 as stated: every createPoll call of an unauthenticated caller, whatever
\* its input, returns 'You must be logged in to create a poll.' and inserts
\* no poll row.
C11_UnauthenticatedAlwaysLoginError ==
  (returned.op = "createPoll" /\ returned.auth = NoUser)
    => returned.error = ErrLoginCreate /\ ~returned.changed

\* C11: a createPoll call of an unauthenticated caller leaves the polls and
\* votes tables unchanged and returns an error: the error of validatePollInput
\* when the input fails validation, and otherwise 'You must be logged in to
\* create a poll.'
C11_UnauthenticatedCreateRefused ==
  [][(/\ ReturnsAtOnce
      /\ returned'.op = "createPoll"
      /\ returned'.auth = NoUser)
       => /\ UNCHANGED <<polls, votes>>
          /\ returned'.error =
               IF FormValidation[returned'.form].valid
                 THEN ErrLoginCreate
                 ELSE FormValidation[returned'.form].error
          /\ returned'.error # Null]_vars

C11_Witness ==
  /\ returned.op = "createPoll"
  /\ returned.auth = NoUser
  /\ FormValidation[returned.form].valid
  /\ returned.error = ErrLoginCreate
  /\ polls # <<>>

\* C12: a createPoll call of an authenticated caller whose input passes
\* validatePollInput and whose storage call does not fail adds exactly one
\* poll row, with the caller's id as user_id and the sanitized question and
\* options of validatePollInput, changes no other poll and no vote, calls
\* revalidatePath("/polls") and returns no error.
C12_CreateAddsOneSanitizedPoll ==
  [][(/\ ReturnsAtOnce
      /\ returned'.op = "createPoll"
      /\ returned'.auth \in Users
      /\ FormValidation[returned'.form].valid
      /\ ~returned'.failed)
       => /\ \E p \in DOMAIN polls' \ DOMAIN polls :
               /\ DOMAIN polls' = DOMAIN polls \cup {p}
               /\ polls'[p].user_id = returned'.auth
               /\ polls'[p].question =
                    sanitizeString(FormData(returned'.form).question)
               /\ polls'[p].options =
                    FormValidation[returned'.form].sanitizedOptions
          /\ \A q \in DOMAIN polls : polls'[q] = polls[q]
          /\ votes' = votes
          /\ returned'.revalidated
          /\ returned'.error = Null]_vars

C12_Witness ==
  /\ returned.op = "createPoll"
  /\ returned.form = "padded"
  /\ returned.error = Null
  /\ returned.changed
  /\ DOMAIN polls = {1, 2}
  /\ polls[2].question = <<"Q">>
  /\ votes # EmptyBag

\* the entries of options that are non-empty after trimming
NonEmptyOptions(options) ==
  SelectSeq(options, LAMBDA o : \E i \in 1..Len(o) : o[i] # " ")

QuestionAccepted(question) ==
  /\ \E i \in 1..Len(question) : question[i] # " "
  /\ Len(question) <= MaxQuestionLength

\* what C13 says of the result out of validatePollInput on arg
C13_OptionErrors(arg, out) ==
  LET n == Len(NonEmptyOptions(arg.options))
  IN  /\ n < MinOptions => ~out.valid /\ out.error = ErrTooFewOptions
      /\ n > MaxOptions => ~out.valid /\ out.error = ErrTooManyOptions
      /\ (/\ n >= MinOptions
          /\ n <= MaxOptions
          /\ \E i \in 1..n : Len(NonEmptyOptions(arg.options)[i])
                                 > MaxOptionLength)
           => ~out.valid /\ out.error = ErrOptionTooLong

\* C13 as stated: for every question, validatePollInput fails with 'Please
\* provide at least two options.' when fewer than 2 options are non-empty
\* after trimming, with 'Maximum 10 options allowed.' when more than 10 are,
\* and with 'Each option must be less than 200 characters.' when the count
\* is in 2..10 and a remaining option is longer than 200.
C13_OptionErrorsForEveryQuestion ==
  (view.fn = "validatePollInput" /\ view.done)
    => C13_OptionErrors(view.arg, view.out)

\* C13: for every question that is not blank and has at most 500 characters,
\* validatePollInput fails with the too-few error when fewer than 2 options
\* are non-empty after trimming, with the too-many error when more than 10
\* are, whatever the length of the array, and with the option-too-long error
\* when the count is in 2..10 and a remaining option is longer than 200.
C13_OptionErrorsAfterQuestion ==
  (/\ view.fn = "validatePollInput"
   /\ view.done
   /\ QuestionAccepted(view.arg.question))
    => C13_OptionErrors(view.arg, view.out)

C13_Witness ==
  /\ view.fn = "validatePollInput"
  /\ view.done
  /\ QuestionAccepted(view.arg.question)
  /\ Len(view.arg.options) > MaxOptions
  /\ Len(NonEmptyOptions(view.arg.options)) < MinOptions
  /\ view.out.error = ErrTooFewOptions

IsTrimmed(s) == s = <<>> \/ (s[1] # " " /\ s[Len(s)] # " ")

\* s has a substring that starts with "<" and ends with ">"
HasTag(s) == \E i \in 1..Len(s), j \in 1..Len(s) :
               i < j /\ s[i] = "<" /\ s[j] = ">"

\* C14: for every question that is not blank and has at most 500 characters
\* and every options array with 2 to 10 non-empty options of at most 200
\* characters each, validatePollInput succeeds, and the question and every
\* option it returns have no leading or trailing whitespace and no substring
\* '<...>'.
C14_ValidInputSanitized ==
  (/\ view.fn = "validatePollInput"
   /\ view.done
   /\ QuestionAccepted(view.arg.question)
   /\ Len(NonEmptyOptions(view.arg.options)) \in MinOptions..MaxOptions
   /\ \A i \in 1..Len(view.arg.options) :
        Len(view.arg.options[i]) <= MaxOptionLength)
    => /\ view.out.valid
       /\ IsTrimmed(view.out.sanitizedQuestion)
       /\ ~HasTag(view.out.sanitizedQuestion)
       /\ \A i \in 1..Len(view.out.sanitizedOptions) :
            /\ IsTrimmed(view.out.sanitizedOptions[i])
            /\ ~HasTag(view.out.sanitizedOptions[i])

NonNegativeInteger(x) == IsInteger(x) /\ x.twice >= 0

\* C15: a submitVote call with an empty poll id or an option index that is
\* not a non-negative integer returns 'Invalid vote data.'; otherwise it
\* returns 'Poll not found.' when no poll has the id, and 'Invalid option
\* selected.' when the poll exists and the index is at least its number of
\* options; in each of these cases no vote row is inserted.
C15_SubmitVoteErrors ==
  /\ [][(ReturnsAtOnce /\ returned'.op = "submitVote"
           /\ returned'.pollId # EmptyId
           /\ NonNegativeInteger(returned'.optionIndex))
          => /\ returned'.pollId \notin DOMAIN polls
                 => returned'.error = ErrPollNotFound /\ votes' = votes
             /\ (/\ returned'.pollId \in DOMAIN polls
                 /\ ~returned'.failed
                 /\ returned'.optionIndex.twice
                      >= 2 * Len(polls[returned'.pollId].options))
                 => returned'.error = ErrInvalidOption /\ votes' = votes]_vars
  /\ []((/\ returned.op = "submitVote"
         /\ \/ returned.pollId = EmptyId
            \/ ~NonNegativeInteger(returned.optionIndex))
          => returned.error = ErrInvalidVote /\ ~returned.changed)

\* the call in view is a getPollResults call that has returned, with a
\* non-blank id, for which storage answered a poll with n >= 1 options and
\* an array of votes
ResultsOfStoredPoll ==
  /\ view.fn = "getPollResults"
  /\ view.done
  /\ \E i \in 1..Len(view.arg.pollId) : view.arg.pollId[i] # " "
  /\ view.arg.response.code = Null
  /\ view.arg.response.data # <<>>
  /\ view.arg.response.data[1].options.t = "array"
  /\ Len(view.arg.response.data[1].options.items) >= 1
  /\ view.arg.response.data[1].votes.t = "array"

FetchedOptions == view.arg.response.data[1].options.items

FetchedVotes == view.arg.response.data[1].votes.items

\* the votes fetched whose option_index is the integer i
VotesFor(i) ==
  {k \in 1..Len(FetchedVotes) : FetchedVotes[k].option_index = JsInt(i)}

\* C16: for a poll with n >= 1 options and any votes, getPollResults returns
\* results, and for each option i the count is the number of votes whose
\* option_index is the integer i: votes whose option_index is missing, not
\* an integer, negative or at least n are counted nowhere and do not make the
\* call fail.
C16_CountsPerOption ==
  ResultsOfStoredPoll =>
    /\ view.out.error = Null
    /\ Len(view.out.results) = 1
    /\ Len(view.out.results[1].options) = Len(FetchedOptions)
    /\ \A i \in 1..Len(FetchedOptions) :
         /\ view.out.results[1].options[i].text = FetchedOptions[i]
         /\ view.out.results[1].options[i].votes = Cardinality(VotesFor(i - 1))

C16_Witness ==
  /\ ResultsOfStoredPoll
  /\ Len(FetchedOptions) = 2
  /\ FetchedVotes = <<[option_index |-> JsUndefined],
                      [option_index |-> JsNumber(3)],
                      [option_index |-> JsInt(2)],
                      [option_index |-> JsInt(1)]>>
  /\ view.out.results[1].options[1].votes = 0
  /\ view.out.results[1].options[2].votes = 1

RECURSIVE SumOfVotes(_)
SumOfVotes(options) ==
  IF options = <<>> THEN 0 ELSE Head(options).votes + SumOfVotes(Tail(options))

\* C17: totalVotes of the results is the number of vote rows of the poll,
\* the rows skipped in counting included; the sum of the counts of the
\* options is at most totalVotes, and equals it exactly when every vote row
\* has an integer option_index from 0 to n - 1.
C17_TotalCountsEveryRow ==
  ResultsOfStoredPoll =>
    /\ Len(view.out.results) = 1
    /\ view.out.results[1].totalVotes = Len(FetchedVotes)
    /\ SumOfVotes(view.out.results[1].options) <= view.out.results[1].totalVotes
    /\ SumOfVotes(view.out.results[1].options) = view.out.results[1].totalVotes
         <=> \A k \in 1..Len(FetchedVotes) :
               \E i \in 0..(Len(FetchedOptions) - 1) : k \in VotesFor(i)

C17_Witness ==
  /\ ResultsOfStoredPoll
  /\ Len(FetchedOptions) = 3
  /\ Len(FetchedVotes) = 3
  /\ view.out.results[1].totalVotes = 3
  /\ SumOfVotes(view.out.results[1].options) = 1
  /\ \E k \in 1..3 : FetchedVotes[k].option_index = JsUndefined

\* round(v / total * 100), halves rounded up, in exact arithmetic
RoundedPercent(v, total) == (200 * v + total) \div (2 * total)

\* C18: calculatePercentage(v, total) is 0 when total = 0 or v = 0 and
\* otherwise v / total * 100 rounded to the nearest integer, halves up; for
\* 0 <= v <= total it is an integer from 0 to 100; a poll without votes has
\* votes 0 and percentage 0 for every option; counts 2 and 1 of 3 votes
\* give 67 and 33.
C18_PercentageRounded ==
  /\ (/\ view.fn = "calculatePercentage"
      /\ view.done
      /\ view.arg.votes <= view.arg.totalVotes)
       => /\ view.out \in 0..100
          /\ view.out = IF view.arg.totalVotes = 0 \/ view.arg.votes = 0 THEN 0
                        ELSE RoundedPercent(view.arg.votes, view.arg.totalVotes)
  /\ (ResultsOfStoredPoll /\ FetchedVotes = <<>>)
       => \A i \in 1..Len(FetchedOptions) :
            /\ view.out.results[1].options[i].votes = 0
            /\ view.out.results[1].options[i].percentage = 0
  /\ (/\ ResultsOfStoredPoll
      /\ Len(FetchedOptions) = 2
      /\ Cardinality(VotesFor(0)) = 2
      /\ Cardinality(VotesFor(1)) = 1
      /\ Len(FetchedVotes) = 3)
       => /\ view.out.results[1].options[1].percentage = 67
          /\ view.out.results[1].options[2].percentage = 33

\* C20: getPollResults returns 'Invalid poll ID provided.' for an empty or
\* blank id; otherwise 'Poll not found.' when storage reports no row, the
\* database error for any other storage error, and 'Invalid poll data:
\* missing or empty options.' when the options of the row are missing, not
\* an array, or empty; and always exactly one of results and error is null.
C20_ResultErrors ==
  (view.fn = "getPollResults" /\ view.done) =>
    /\ (view.out.results = <<>>) <=> (view.out.error # Null)
    /\ IF \A i \in 1..Len(view.arg.pollId) : view.arg.pollId[i] = " "
         THEN view.out.error = ErrInvalidPollId
       ELSE IF view.arg.response.code = "PGRST116"
         THEN view.out.error = ErrPollNotFound
       ELSE IF view.arg.response.code # Null
         THEN view.out.error = ErrDatabase
       ELSE IF view.arg.response.data = <<>>
         THEN view.out.error = ErrPollNotFound
       ELSE (\/ view.arg.response.data[1].options.t # "array"
             \/ view.arg.response.data[1].options.items = <<>>)
              => view.out.error = ErrMalformedPoll

C20_Witness ==
  /\ view.fn = "getPollResults"
  /\ view.done
  /\ view.arg.response.code = Null
  /\ view.arg.response.data # <<>>
  /\ view.arg.response.data[1].options.t = "string"
  /\ view.out = [results |-> <<>>, error |-> ErrMalformedPoll]

\* the step is a getPollResults call with the poll id of the getPollResults
\* call before it, and storage failed in neither
SecondRead ==
  /\ view.fn = "getPollResults"
  /\ view'.fn = "getPollResults"
  /\ UNCHANGED <<polls, votes, returned, reqs>>
  /\ view'.arg.pollId = view.arg.pollId
  /\ view.arg.response.code # "OTHER"
  /\ view'.arg.response.code # "OTHER"

\* the votes a getPollResults call fetched
VotesSeen(call) ==
  IF call.arg.response.data = <<>> THEN <<>>
  ELSE call.arg.response.data[1].votes.items

\* the number of stored votes on poll p for option index i
StoredVotes(p, i) ==
  LET rows == {v \in BagToSet(votes) : v.poll_id = p /\ v.option_index = i}
  IN  BagCardinality([v \in rows |-> votes[v]])

\* the poll the first of the two calls fetched is stored as it was fetched,
\* with as many votes for each option index as were fetched
SamePollAndVotes ==
  /\ view.arg.response.data # <<>>
  /\ LET row == view.arg.response.data[1]
     IN  /\ row.id \in DOMAIN polls
         /\ polls[row.id] = [user_id |-> row.user_id, question |-> row.question,
                             options |-> row.options.items]
         /\ \A i \in -1..MaxOptions :
              StoredVotes(row.id, i)
                = Cardinality({k \in 1..Len(row.votes.items) :
                                 row.votes.items[k].option_index = JsInt(i)})

\* C19 as stated: of two getPollResults calls with the same poll id, the
\* first of which returned results and the second of which fetches the votes
\* the first fetched (no vote was submitted in between), the second returns
\* what the first returned.
C19_SameResultsWithoutVotes ==
  [][(/\ SecondRead
      /\ view.out.error = Null
      /\ VotesSeen(view') = VotesSeen(view))
       => view'.out = view.out]_vars

\* C19: of two getPollResults calls with the same poll id, neither of which
\* meets a storage failure, with no vote submitted on the poll and the poll
\* neither created, updated nor deleted in between, the second returns what
\* the first returned: the same poll, texts, counts, percentages and total.
C19_SameResultsForSamePoll ==
  [][(SecondRead /\ SamePollAndVotes) => view'.out = view.out]_vars

C19_Witness ==
  /\ view.fn = "getPollResults"
  /\ view.done
  /\ view.out.error = Null
  /\ view.out.results[1].totalVotes = 1
  /\ SamePollAndVotes
  /\ DOMAIN polls = {1, 2}
  /\ \E v \in BagToSet(votes) : v.poll_id # view.out.results[1].poll.id

\* the step is a call of fn that only reads
Reads(fn) == view'.fn = fn /\ view' # view

\* C21: hasUserVoted returns hasVoted = false and no error to a caller
\* without a session; to an authenticated caller whose storage call does not
\* fail it returns no error and hasVoted = true exactly when at least one
\* vote row of that caller on that poll is stored, however many there are;
\* any storage error other than "not found" is returned as the error.
C21_VotedIffVoteStored ==
  [][Reads("hasUserVoted") =>
       LET a == view'.arg.auth
           failed == view'.arg.response.code = "OTHER"
       IN  /\ a \notin Users => view'.out = Voted(FALSE, Null)
           /\ (a \in Users /\ ~failed) =>
                /\ view'.out.error = Null
                /\ view'.out.hasVoted
                     <=> MatchingVotes(view'.arg.pollId, a) >= 1
           /\ (a \in Users /\ failed) => view'.out.error # Null]_vars

\* the polls of polls owned by u, as getUserPolls returns them
RECURSIVE OwnedBy(_, _)
OwnedBy(u, p) ==
  IF p = 0 THEN <<>>
  ELSE (IF p \in DOMAIN polls /\ polls[p].user_id = u
          THEN <<[id |-> p, user_id |-> u, question |-> polls[p].question,
                  options |-> polls[p].options]>>
          ELSE <<>>) \o OwnedBy(u, p - 1)

\* C23: getUserPolls of an authenticated caller whose storage call does not
\* fail returns, without error, exactly the polls whose user_id is the
\* caller, the newest first, and in no case a poll of another user; to a
\* caller without a session it returns no poll and 'Not authenticated'.
C23_OwnPollsNewestFirst ==
  [][Reads("getUserPolls") =>
       LET a == view'.arg.auth
       IN  /\ a \notin Users => view'.out = UserPolls(<<>>, ErrNotAuthenticated)
           /\ \A i \in 1..Len(view'.out.polls) :
                view'.out.polls[i].user_id = a
           /\ (a \in Users /\ view'.arg.ok) =>
                view'.out = UserPolls(OwnedBy(a, MaxPolls), Null)]_vars

C23_Witness ==
  /\ view.fn = "getUserPolls"
  /\ view.done
  /\ view.arg.auth = "u1"
  /\ Len(view.out.polls) = 1
  /\ view.out.polls[1].id = 2
  /\ DOMAIN polls = {1, 2}
  /\ polls[1].user_id = "qa"

\* C24: a step changes the polls or the votes table only as the last step of
\* a createPoll, updatePoll, deletePoll or submitVote call, which then
\* returns no error: a call that returns an error has changed no table.  A
\* call that has reached its delete or insert leaves it only by returning,
\* so it issues its storage mutation at most once.
C24_ErrorsLeaveTablesUnchanged ==
  /\ [][(polls' # polls \/ votes' # votes) =>
          /\ returned.pc = "idle"
          /\ returned'.pc = "done"
          /\ returned'.op \in {"createPoll", "updatePoll", "deletePoll",
                               "submitVote"}
          /\ returned'.error = Null
          /\ returned'.changed]_vars
  /\ [][\A r \in Slots :
          reqs[r].pc \in {"delete", "insert"} =>
            reqs'[r].pc \in {reqs[r].pc, "idle"}]_vars
  /\ []((returned.pc = "done" /\ returned.error # Null) => ~returned.changed)

C24_Witness ==
  /\ returned.op = "submitVote"
  /\ returned.auth \in Users
  /\ returned.failed
  /\ returned.error = ErrStorage
  /\ returned.pollId \in DOMAIN polls
  /\ votes # EmptyBag

\* C25: the copies of a vote row become fewer only in a step that removes the
\* poll the row references, which removes them all (no step rewrites a
\* stored vote row); a step adds vote rows only as a submitVote call that
\* returns no error; and in every state every vote row references a stored
\* poll, so none references a poll that deletePoll removed.
C25_VotesOnlyCascade ==
  /\ [][\A v \in BagToSet(votes) :
          CopiesIn(v, votes') < CopiesIn(v, votes) =>
            /\ v.poll_id \in DOMAIN polls \ DOMAIN polls'
            /\ CopiesIn(v, votes') = 0]_vars
  /\ [][\A v \in BagToSet(votes') :
          CopiesIn(v, votes') > CopiesIn(v, votes) =>
            /\ CopiesIn(v, votes') = CopiesIn(v, votes) + 1
            /\ returned'.op = "submitVote"
            /\ returned'.error = Null]_vars
  /\ [](\A v \in BagToSet(votes) : v.poll_id \in DOMAIN polls)
  /\ []((returned.op = "deletePoll" /\ returned.changed) =>
          \A v \in BagToSet(votes) : v.poll_id # returned.pollId)

C25_Witness ==
  /\ returned.op = "deletePoll"
  /\ returned.changed
  /\ returned.pollId \notin DOMAIN polls
  /\ \E r \in Slots :
       /\ reqs[r].op = "submitVote"
       /\ reqs[r].pc = "insert"
       /\ reqs[r].prior
       /\ reqs[r].pollId = returned.pollId

\* C26: a submitVote call of an authenticated user whose lookup of an
\* existing vote does not fail goes on to its insert only if no vote row of
\* that user on that poll is stored at the time of the lookup: with one row
\* or more it returns 'You have already voted on this poll.' and inserts
\* nothing, so that no third row is added once two are stored.
C26_ExistingVoteRejected ==
  [][\A r \in Slots :
       (/\ reqs[r].op = "submitVote"
        /\ reqs[r].pc = "check"
        /\ reqs'[r].pc # "check"
        /\ MatchingVotes(reqs[r].pollId, VoterOf(reqs[r])) >= 1
        /\ ~(reqs'[r].pc = "insert" /\ reqs'[r].failed))
         => /\ reqs'[r].pc = "idle"
            /\ returned'.error = ErrAlreadyVoted
            /\ votes' = votes]_vars

\* C22: for every user, deletePoll, the admin page and withAdminAuth take the
\* same decision, which is admin exactly when the email is on the allow-list
\* or contains 'admin' or the role is 'admin'; qa-admin@corp.com is admin at
\* all three.
C22_AdminDecisionsAgree ==
  (view.fn = "isAdmin" /\ view.done) =>
    /\ view.out.deletePoll = ClassifiedAdmin(view.arg.user)
    /\ view.out.adminPage = ClassifiedAdmin(view.arg.user)
    /\ view.out.withAdminAuth = ClassifiedAdmin(view.arg.user)
    /\ view.arg.user = "qa" =>
         view.out.deletePoll /\ view.out.adminPage /\ view.out.withAdminAuth

C22_Witness ==
  /\ view.fn = "isAdmin"
  /\ view.done
  /\ UserEmail(view.arg.user) \notin AdminEmails
  /\ includes(UserEmail(view.arg.user), <<"a", "d", "m", "i", "n">>)
  /\ UserRole(view.arg.user) # "admin"
  /\ view.out = [deletePoll |-> TRUE, adminPage |-> TRUE,
                 withAdminAuth |-> TRUE]

\* C27: in every state, AdminPage renders the admin panel, and WithAdminAuth
\* the wrapped component, only while the user of the auth context is not
\* null and is classified admin.
C27_AdminContentOnlyForAdmin ==
  /\ AdminPageScreen = "Admin Panel" =>
       provider.user # NoUser /\ ClassifiedAdmin(provider.user)
  /\ WithAdminAuthScreen = "WrappedComponent" =>
       provider.user # NoUser /\ ClassifiedAdmin(provider.user)

\* auth loading has finished and the user of the context is not an admin
NonAdminSignedIn ==
  /\ provider.mounted
  /\ ~provider.loading
  /\ provider.user \in Users
  /\ ~ClassifiedAdmin(provider.user)

\* C28: when auth loading has finished on the admin page with a user who is
\* not classified admin, then, unless the user of the context changes or
\* the application is closed, the page eventually renders 'Access Denied'
\* and has issued a redirect to /polls.
C28_NonAdminSeesAccessDenied ==
  (page.mounted /\ NonAdminSignedIn)
    ~> \/ ~NonAdminSignedIn
       \/ AdminPageScreen = "Access Denied" /\ page.pushed = "/polls"

\* pollId is in the list of polls of the admin page
Listed(list, pollId) == \E i \in 1..Len(list) : list[i] = pollId

\* C29: once handleDelete has run for a poll after deletePoll returned no
\* error, no handleDelete call puts the poll back into the list of polls of
\* the admin page, whatever handleDelete calls were in flight together.
C29_DeletedPollsStayRemoved ==
  [][(returned.pc = "done" /\ returned'.pc = "idle" /\ page.mounted) =>
       \A pollId \in page'.removed :
         Listed(page'.polls, pollId) =>
           pollId \notin page.removed /\ pollId # returned.pollId]_vars

\* C30: once the listener has been called with a session, the session of the
\* context is that session and the user of the context its user, until the
\* listener is called again; loading becomes false only when getUser
\* resumes while mounted, and never true again; after the unmount no state
\* of the context is updated.
C30_ListenerSessionKept ==
  /\ []((provider.heard /\ provider.mounted) =>
          /\ provider.session = provider.last
          /\ provider.user = provider.last)
  /\ [][provider'.loading # provider.loading =>
          /\ provider.loading
          /\ provider.mounted
          /\ provider.getUser = "served"
          /\ provider'.getUser = "done"]_vars
  /\ [][~provider.mounted =>
          /\ provider'.session = provider.session
          /\ provider'.user = provider.user
          /\ provider'.loading = provider.loading]_vars

====
